---- MODULE Spec2Model ----
(***************************************************************************)
(* The StackExchange OAuth2 provider of goth                               *)
(* (providers/stackexchange/stackexchange.go): construction of the         *)
(* provider and its OAuth2 config, BeginAuth, FetchUser with the profile   *)
(* mapper userFromReader, SetName and the refresh-token stubs.             *)
(*                                                                         *)
(* Go strings are TLA+ strings.  A time.Time is an integer, 0 the zero     *)
(* time.  A JSON body is the tree the decoder sees: its kind, the kind of  *)
(* its "items" member, the elements of that array and, per element, the    *)
(* kind and value of every member the mapper's struct names.               *)
(***************************************************************************)
EXTENDS Integers, Sequences, FiniteSets, TLC

VARIABLES provider, session, requests, fetch, store, last

vars == <<provider, session, requests, fetch, store, last>>

----------------------------------------------------------------------------
(* Bounds of the model. *)

\* longest caller-supplied scope list given to New
MaxScopes == 2
\* longest "items" array of a profile response
MaxItems == 2
\* GET requests the stub transport counts before the model stops issuing them
MaxRequests == 1

----------------------------------------------------------------------------
(* Constants of the package. *)

authURL == "https://stackexchange.com/oauth"
tokenURL == "https://stackexchange.com/oauth/access_token/json"
defaultScope == "private_info"
defaultProviderName == "stackexchange"
StatusOK == 200

----------------------------------------------------------------------------
(* Strings. *)

\* strings.Contains
Contains(s, sub) ==
    \E i \in 1..(Len(s) - Len(sub) + 1) : SubSeq(s, i, i + Len(sub) - 1) = sub

\* the printable ASCII bytes in order: 0x20 to 0x5F, and 0x61 to 0x7E (a
\* string of the model cannot hold the byte 0x60)
AsciiLow ==
    " !\"#$%&'()*+,-./0123456789:;<=>?@ABCDEFGHIJKLMNOPQRSTUVWXYZ[\\]^_"
AsciiHigh == "abcdefghijklmnopqrstuvwxyz{|}~"

\* the bytes url.QueryEscape keeps (shouldEscape, encodeQueryComponent)
Unreserved ==
    "ABCDEFGHIJKLMNOPQRSTUVWXYZabcdefghijklmnopqrstuvwxyz0123456789-_.~"

UpperHex == "0123456789ABCDEF"

\* the value of a printable ASCII byte
ByteCode(c) ==
    IF Contains(AsciiLow, c)
    THEN 31 + (CHOOSE i \in 1..Len(AsciiLow) : SubSeq(AsciiLow, i, i) = c)
    ELSE 96 + (CHOOSE i \in 1..Len(AsciiHigh) : SubSeq(AsciiHigh, i, i) = c)

\* url.QueryEscape of one printable ASCII byte: an unreserved byte is kept, a
\* space becomes '+', any other byte becomes %XX in upper-case hex
EscapeByte(c) ==
    IF Contains(Unreserved, c) THEN c
    ELSE IF c = " " THEN "+"
    ELSE "%" \o SubSeq(UpperHex, (ByteCode(c) \div 16) + 1, (ByteCode(c) \div 16) + 1)
             \o SubSeq(UpperHex, (ByteCode(c) % 16) + 1, (ByteCode(c) % 16) + 1)

RECURSIVE QueryEscape(_)
QueryEscape(s) ==
    IF Len(s) = 0 THEN ""
    ELSE EscapeByte(SubSeq(s, 1, 1)) \o QueryEscape(SubSeq(s, 2, Len(s)))

\* strings.Join
RECURSIVE Join(_, _)
Join(elems, sep) ==
    IF Len(elems) = 0 THEN ""
    ELSE IF Len(elems) = 1 THEN elems[1]
    ELSE elems[1] \o sep \o Join(Tail(elems), sep)

\* strconv.Itoa
Itoa(n) == ToString(n)

\* the first n bytes of s
Take(s, n) == SubSeq(s, 1, n)

\* a Go string in memory is two words, the pointer to its bytes and its
\* length, and an assignment stores them one after the other.  Torn is the
\* string a reader finds when one word of the assignment old -> new is stored
\* and the other is not: with the pointer stored first, the bytes of new and
\* what lies behind them, to the length of old; with the length stored first,
\* the bytes of old and what lies behind them, to the length of new.
Torn(old, new, word, behind) ==
    IF word = "ptr" THEN Take(new \o behind, Len(old))
    ELSE Take(old \o behind, Len(new))

----------------------------------------------------------------------------
(* The OAuth2 config. *)

\* a plausible slip: every caller scope is appended, a default one too
RECURSIVE AppendScopesAll(_, _)
AppendScopesAll(acc, scopes) ==
    IF Len(scopes) = 0 THEN acc
    ELSE AppendScopesAll(Append(acc, Head(scopes)), Tail(scopes))

\* the scope loop of newConfig: every caller scope that is not a default one
\* is appended, in order
RECURSIVE AppendScopes(_, _)
AppendScopes(acc, scopes) ==
    IF Len(scopes) = 0 THEN acc
    ELSE AppendScopes(IF Head(scopes) = defaultScope THEN acc
                      ELSE Append(acc, Head(scopes)),
                      Tail(scopes))

newConfig(p, scopes) ==
    [ClientID     |-> p.ClientKey,
     ClientSecret |-> p.Secret,
     RedirectURL  |-> p.CallbackURL,
     AuthURL      |-> authURL,
     TokenURL     |-> tokenURL,
     Scopes       |-> AppendScopes(<<defaultScope>>, scopes)]

\* New: the four positional arguments are the client key, the secret, the
\* client access key and the callback URL; what follows them are scopes
New(clientKey, secret, clientAccessKey, callbackURL, scopes) ==
    LET p == [ClientKey       |-> clientKey,
              Secret          |-> secret,
              ClientAccessKey |-> clientAccessKey,
              CallbackURL     |-> callbackURL,
              providerName    |-> defaultProviderName]
    IN  [ClientKey       |-> p.ClientKey,
         Secret          |-> p.Secret,
         ClientAccessKey |-> p.ClientAccessKey,
         CallbackURL     |-> p.CallbackURL,
         providerName    |-> p.providerName,
         config          |-> newConfig(p, scopes)]

\* a plausible slip: the name New gave, whatever SetName stored
NameOfType(p) == defaultProviderName

Name(p) == p.providerName

\* oauth2.Config.AuthCodeURL: the endpoint, '?' (or '&' when the endpoint
\* already holds a query) and the query in url.Values.Encode's key order
AuthCodeURL(c, state) ==
    c.AuthURL
      \o (IF Contains(c.AuthURL, "?") THEN "&" ELSE "?")
      \o "client_id=" \o QueryEscape(c.ClientID)
      \o (IF c.RedirectURL # "" THEN "&redirect_uri=" \o QueryEscape(c.RedirectURL)
          ELSE "")
      \o "&response_type=code"
      \o (IF Len(c.Scopes) > 0 THEN "&scope=" \o QueryEscape(Join(c.Scopes, " "))
          ELSE "")
      \o (IF state # "" THEN "&state=" \o QueryEscape(state) ELSE "")

----------------------------------------------------------------------------
(* Sessions, users, errors. *)

ZeroSession == [AuthURL |-> "", AccessToken |-> "", ExpiresAt |-> 0]

BeginAuthSession(p, state) ==
    [AuthURL |-> AuthCodeURL(p.config, state), AccessToken |-> "", ExpiresAt |-> 0]

NoError == [kind |-> "nil", msg |-> "", code |-> 0]

Error(kind, msg, code) == [kind |-> kind, msg |-> msg, code |-> code]

----------------------------------------------------------------------------
(* JSON as encoding/json decodes it. *)

\* the members of the mapper's item struct (json tags)
FieldNames == {"user_id", "email", "about_me", "display_name", "first_name",
               "last_name", "link", "profile_image", "location"}

\* a member of an item: absent, null, a string or an integer
Absent == [kind |-> "absent", s |-> "", n |-> 0]
Null   == [kind |-> "null", s |-> "", n |-> 0]
Str(x) == [kind |-> "str", s |-> x, n |-> 0]
Num(k) == [kind |-> "num", s |-> "", n |-> k]

\* decoding a member into a Go string field: absent and null leave the zero
\* value, a string is stored, anything else is an UnmarshalTypeError
DecodeString(fv) ==
    CASE fv.kind \in {"absent", "null"} -> [val |-> "", ok |-> TRUE]
      [] fv.kind = "str"                -> [val |-> fv.s, ok |-> TRUE]
      [] OTHER                          -> [val |-> "", ok |-> FALSE]

\* decoding a member into a Go int field
DecodeInt(fv) ==
    CASE fv.kind \in {"absent", "null"} -> [val |-> 0, ok |-> TRUE]
      [] fv.kind = "num"                -> [val |-> fv.n, ok |-> TRUE]
      [] OTHER                          -> [val |-> 0, ok |-> FALSE]

NoFields == [f \in FieldNames |-> Absent]

\* an element of "items": null, a non-object value, or an object
NullElem      == [kind |-> "null", f |-> NoFields]
BadElem       == [kind |-> "badtype", f |-> NoFields]
ObjectElem(f) == [kind |-> "object", f |-> f]

\* the "items" member of the body: absent, null, a non-array value, an array
AbsentItems      == [kind |-> "absent", elems |-> <<>>]
NullItems        == [kind |-> "null", elems |-> <<>>]
BadItems         == [kind |-> "badtype", elems |-> <<>>]
ArrayItems(elems) == [kind |-> "array", elems |-> elems]

\* a response body as json.Decoder.Decode reads it: the first JSON value of
\* the stream, and whether bytes other than white space follow it.  The first
\* value is malformed (a syntax error, or no value at all), the JSON null, a
\* JSON value that is no object (a number, a string, an array), or an object.
\* Decode reads one value and does not look at what follows it.
MalformedBody     == [kind |-> "malformed", items |-> AbsentItems, trailing |-> FALSE]
NullBody          == [kind |-> "null", items |-> AbsentItems, trailing |-> FALSE]
ScalarBody        == [kind |-> "scalar", items |-> AbsentItems, trailing |-> FALSE]
ObjectBody(items) == [kind |-> "object", items |-> items, trailing |-> FALSE]
WithTrailing(body) == [body EXCEPT !.trailing = TRUE]

\* a nil map[string]interface{}
NilRawData == [kind |-> "nil", items |-> AbsentItems, trailing |-> FALSE]

\* json.Decode of the body into user.RawData (map[string]interface{}): a
\* syntax error for a malformed first value, a type error for a JSON value
\* that is no object, a nil map for null, else the object
DecodeRawData(body) ==
    CASE body.kind = "malformed" ->
            [raw |-> NilRawData, err |-> Error("DecodeError", "invalid character", 0)]
      [] body.kind = "scalar" ->
            [raw |-> NilRawData,
             err |-> Error("DecodeError", "json: cannot unmarshal into Go value of type map[string]interface {}", 0)]
      [] body.kind = "null" ->
            [raw |-> NilRawData, err |-> NoError]
      [] OTHER ->
            [raw |-> [body EXCEPT !.trailing = FALSE], err |-> NoError]

\* the zero value of the mapper's item struct
ZeroItem == [ID |-> 0, Email |-> "", About |-> "", Name |-> "", FirstName |-> "",
             LastName |-> "", Link |-> "", Picture |-> "", Location |-> ""]

\* one element of "items" decoded into the item struct, and whether every
\* member had the type of its field
DecodeItem(e) ==
    IF e.kind = "null" THEN [item |-> ZeroItem, ok |-> TRUE]
    ELSE IF e.kind = "badtype" THEN [item |-> ZeroItem, ok |-> FALSE]
    ELSE [item |-> [ID        |-> DecodeInt(e.f["user_id"]).val,
                    Email     |-> DecodeString(e.f["email"]).val,
                    About     |-> DecodeString(e.f["about_me"]).val,
                    Name      |-> DecodeString(e.f["display_name"]).val,
                    FirstName |-> DecodeString(e.f["first_name"]).val,
                    LastName  |-> DecodeString(e.f["last_name"]).val,
                    Link      |-> DecodeString(e.f["link"]).val,
                    Picture   |-> DecodeString(e.f["profile_image"]).val,
                    Location  |-> DecodeString(e.f["location"]).val],
          ok   |-> /\ DecodeInt(e.f["user_id"]).ok
                   /\ \A k \in FieldNames \ {"user_id"} : DecodeString(e.f[k]).ok]

\* json.Decode of the body into the mapper's struct {Items []item}: the
\* decoded Items and the error.  A type error anywhere in the first JSON
\* value, also in a later element, is the error of the whole decode; bytes
\* after the first value are not read.
DecodeProfile(body) ==
    CASE body.kind = "malformed" ->
            [Items |-> <<>>, err |-> Error("DecodeError", "invalid character", 0)]
      [] body.kind = "scalar" ->
            [Items |-> <<>>, err |-> Error("DecodeError", "json: cannot unmarshal into Go value of type struct", 0)]
      [] body.kind = "null" ->
            [Items |-> <<>>, err |-> NoError]
      [] body.items.kind \in {"absent", "null"} ->
            [Items |-> <<>>, err |-> NoError]
      [] body.items.kind = "badtype" ->
            [Items |-> <<>>, err |-> Error("DecodeError", "json: cannot unmarshal into Go struct field .Items", 0)]
      [] OTHER ->
            LET es == body.items.elems
            IN  [Items |-> [i \in 1..Len(es) |-> DecodeItem(es[i]).item],
                 err   |-> IF \A i \in 1..Len(es) : DecodeItem(es[i]).ok
                           THEN NoError
                           ELSE Error("DecodeError", "json: cannot unmarshal into Go struct field", 0)]

----------------------------------------------------------------------------
(* FetchUser. *)

ZeroUser ==
    [AccessToken |-> "", Provider |-> "", ExpiresAt |-> 0, Name |-> "",
     FirstName |-> "", LastName |-> "", NickName |-> "", Email |-> "",
     Description |-> "", AvatarURL |-> "", UserID |-> "", Location |-> "",
     RawData |-> NilRawData]

\* what a call hands back: the user and the error it returns and the GETs it
\* issued, or a run-time panic (nothing is returned then)
Return(user, err, gets) ==
    [user |-> user, err |-> err, gets |-> gets, panicked |-> FALSE]

Panic(gets) ==
    [user |-> ZeroUser, err |-> NoError, gets |-> gets, panicked |-> TRUE]

\* a plausible slip: the last element of Items is read, not the first
userFromReaderLast(body, user, gets) ==
    LET u == DecodeProfile(body)
        k == Len(u.Items)
    IN  IF u.err # NoError THEN Return(user, u.err, gets)
        ELSE IF k = 0 THEN Panic(gets)
        ELSE Return([user EXCEPT !.Name        = u.Items[k].Name,
                                 !.FirstName   = u.Items[k].FirstName,
                                 !.LastName    = u.Items[k].LastName,
                                 !.NickName    = u.Items[k].Name,
                                 !.Email       = u.Items[k].Email,
                                 !.Description = u.Items[k].About,
                                 !.AvatarURL   = u.Items[k].Picture,
                                 !.UserID      = Itoa(u.Items[k].ID),
                                 !.Location    = u.Items[k].Location],
                    NoError, gets)

\* userFromReader: decode, then copy the fields of Items[0]; indexing an
\* empty Items is a run-time panic (index out of range)
userFromReader(body, user, gets) ==
    LET u == DecodeProfile(body)
    IN  IF u.err # NoError THEN Return(user, u.err, gets)
        ELSE IF Len(u.Items) = 0 THEN Panic(gets)
        ELSE Return([user EXCEPT !.Name        = u.Items[1].Name,
                                 !.FirstName   = u.Items[1].FirstName,
                                 !.LastName    = u.Items[1].LastName,
                                 !.NickName    = u.Items[1].Name,
                                 !.Email       = u.Items[1].Email,
                                 !.Description = u.Items[1].About,
                                 !.AvatarURL   = u.Items[1].Picture,
                                 !.UserID      = Itoa(u.Items[1].ID),
                                 !.Location    = u.Items[1].Location],
                    NoError, gets)

\* a reply of the transport to the GET: Get fails, or a response with a status,
\* a body and whether reading the body fails
TransportFailure == [kind |-> "transportError", status |-> 0, readFails |-> FALSE,
                     body |-> MalformedBody]
Response(status, readFails, body) ==
    [kind |-> "response", status |-> status, readFails |-> readFails, body |-> body]

\* FetchUser from reading the body on: ioutil.ReadAll, the decode into
\* RawData, the mapper
readProfile(resp, user) ==
    IF resp.readFails THEN
        Return(user, Error("TransportError", "ReadAll: read failure", 0), 1)
    ELSE LET raw == DecodeRawData(resp.body)
         IN  IF raw.err # NoError THEN Return(user, raw.err, 1)
             ELSE userFromReader(resp.body, [user EXCEPT !.RawData = raw.raw], 1)

\* FetchUser goes on to read the body
ReadBody == [done |-> FALSE, out |-> Return(ZeroUser, NoError, 1)]

\* FetchUser returns out
Done(out) == [done |-> TRUE, out |-> out]

\* FetchUser from the answer to the GET up to the status check: it returns
\* on a transport failure and on a status other than 200, else it goes on to
\* read the body.  The request is counted; its URL (the token, the key, the
\* HMAC proof) is not represented, the transport answers with any resp.
getProfile(p, user, resp) ==
    IF resp.kind = "transportError" THEN
        Done(Return(user, Error("TransportError", "Get: transport failure", 0), 1))
    ELSE IF resp.status # StatusOK THEN
        Done(Return(user,
                    Error("UnexpectedStatus",
                          p.providerName \o " responded with a " \o Itoa(resp.status)
                             \o " trying to fetch user information",
                          resp.status),
                    1))
    ELSE ReadBody

\* FetchUser up to the token check: the user with the session's token and
\* expiry and the provider's name
startUser(p, sess) ==
    [ZeroUser EXCEPT !.AccessToken = sess.AccessToken,
                     !.Provider    = Name(p),
                     !.ExpiresAt   = sess.ExpiresAt]

\* a plausible slip: the access token is not checked before the GET
missingTokenNever(user) == FALSE

\* the token check of FetchUser
missingToken(user) == user.AccessToken = ""

\* the return of FetchUser without a token: no request was made
incompleteSession(p, user) ==
    Return(user,
           Error("IncompleteSession",
                 p.providerName \o " cannot get user information without accessToken", 0),
           0)

\* FetchUser when nothing renames the provider while it runs
FetchUser(p, sess, resp) ==
    LET user == startUser(p, sess)
    IN  IF missingToken(user) THEN incompleteSession(p, user)
        ELSE IF getProfile(p, user, resp).done THEN getProfile(p, user, resp).out
        ELSE readProfile(resp, user)

\* RefreshToken: no token, always an error
RefreshToken(p, refreshToken) ==
    [token |-> "nil",
     err   |-> Error("UnsupportedOperation", "Refresh token is not provided by stackexchange", 0)]

\* a plausible slip: the stub reports that tokens can be refreshed
RefreshTokenAvailableYes(p) == TRUE

RefreshTokenAvailable(p) == FALSE

----------------------------------------------------------------------------
(* The inputs the callers and the transport supply. *)

SeqsUpTo(S, n) == UNION {[1..k -> S] : k \in 0..n}

ScopeNames == {"private_info", "read_inbox", "no_expiry"}

\* the arguments of New: any scope list up to MaxScopes
NewArgsWide ==
    [clientKey : {"key"}, secret : {"secret"},
     clientAccessKey : {"akey", "/foo"},
     callbackURL : {"/cb", "private_info"},
     scopes : SeqsUpTo(ScopeNames, MaxScopes)]

\* the arguments of New in the life-cycle specification: the test's
\* New(key, secret, "/foo", "private_info")
NewArgsNarrow ==
    {[clientKey |-> "key", secret |-> "secret", clientAccessKey |-> "/foo",
      callbackURL |-> "private_info", scopes |-> <<>>]}

ProviderNames == {"stackexchange", "se2"}
States == {"test_state", "a b+c"}
\* the state of the logins of the life-cycle specification
LoginStates == {"test_state"}
\* what a code exchange gives the caller: an access token and its expiry
Credentials == {[token |-> "", expiresAt |-> 0],
                [token |-> "1234567890", expiresAt |-> 1700]}
RefreshTokens == {"", "r1"}
Statuses == {200, 404}
\* the word of the name that a SetName stores first
Words == {"ptr", "len"}
\* bytes that lie in memory behind the bytes of a name
Behind == {"##########", "stackexcha"}

\* the spec's sample item
Ada ==
    ObjectElem([NoFields EXCEPT !["user_id"] = Num(42),
                                !["email"] = Str("a@b.com"),
                                !["about_me"] = Str("bio"),
                                !["display_name"] = Str("Ada"),
                                !["first_name"] = Str("Ada"),
                                !["last_name"] = Str("L"),
                                !["link"] = Str("http://x"),
                                !["profile_image"] = Str("http://p"),
                                !["location"] = Str("NY")])
\* an item without user_id, with a null member and absent members
Bob ==
    ObjectElem([NoFields EXCEPT !["email"] = Str("bob@c.org"),
                                !["about_me"] = Null,
                                !["display_name"] = Str("Bob"),
                                !["profile_image"] = Str("http://q"),
                                !["location"] = Str("LA")])
\* items whose members have the wrong JSON type
BadId == ObjectElem([Ada.f EXCEPT !["user_id"] = Str("42")])
BadName == ObjectElem([Bob.f EXCEPT !["user_id"] = Num(-7), !["display_name"] = Num(5)])

SampleElems == {Ada, Bob, BadId, BadName, NullElem}

Bodies ==
    {MalformedBody, NullBody, ScalarBody,
     ObjectBody(AbsentItems), ObjectBody(NullItems), ObjectBody(BadItems)}
      \cup {ObjectBody(ArrayItems(es)) : es \in SeqsUpTo(SampleElems, MaxItems)}

\* bodies in which other bytes follow a complete JSON value
TrailingBodies ==
    {WithTrailing(ObjectBody(ArrayItems(<<Ada>>))),
     WithTrailing(ObjectBody(ArrayItems(<<>>))),
     WithTrailing(ScalarBody)}

\* bodies sent with a status other than 200 or cut off while they are read
ErrorBodies ==
    {MalformedBody, ObjectBody(ArrayItems(<<>>)), ObjectBody(ArrayItems(<<Ada>>))}

Responses ==
    {TransportFailure}
      \cup {Response(StatusOK, FALSE, b) : b \in Bodies \cup TrailingBodies}
      \cup {Response(StatusOK, TRUE, b) : b \in ErrorBodies}
      \cup {Response(st, FALSE, b) : st \in Statuses \ {StatusOK}, b \in ErrorBodies}

----------------------------------------------------------------------------
(* The state machine: one provider shared by goroutines, the caller's       *)
(* session, the transport's count of GET requests, the FetchUser in         *)
(* progress, the SetName in progress, and the last step with what it        *)
(* returned.                                                                *)
(*                                                                         *)
(* FetchUser is not one step: it reads the provider's name when it builds   *)
(* the user, again for the IncompleteSession message, blocks in the GET,    *)
(* reads the name again for the UnexpectedStatus message and blocks again   *)
(* while the body is read.  SetName stores the name without a lock, and a   *)
(* string is two words: SetName is two steps, one per word, in either       *)
(* order, and any step of any call may fall between them and read the torn  *)
(* name.  There is one caller of the other operations and one goroutine     *)
(* that renames.                                                            *)

NoArgs == [clientKey |-> "", secret |-> "", clientAccessKey |-> "",
           callbackURL |-> "", scopes |-> <<>>]
NoResponse == [kind |-> "none", status |-> 0, readFails |-> FALSE,
               body |-> MalformedBody]
NoReturn == Return(ZeroUser, NoError, 0)

\* op: the step taken; for a FetchUser that returned, sess is its session,
\* built the user it built first; raced: a step of a SetName ran during the
\* call, or a SetName was half done when it read the name
NoCall ==
    [op |-> "", arg |-> "", args |-> NoArgs, ret |-> "", sess |-> ZeroSession,
     resp |-> NoResponse, out |-> NoReturn, avail |-> TRUE,
     built |-> ZeroUser, raced |-> FALSE]

\* no FetchUser in progress
IdleFetch == [pc |-> "idle", sess |-> ZeroSession, user |-> ZeroUser,
              resp |-> NoResponse, raced |-> FALSE]

\* no SetName in progress
IdleStore == [pc |-> "idle", name |-> ""]

\* a panic that nothing recovers ends the process
Running == ~last.out.panicked

InitWith(argSet) ==
    \E a \in argSet :
        /\ provider = New(a.clientKey, a.secret, a.clientAccessKey, a.callbackURL,
                          a.scopes)
        /\ session = ZeroSession
        /\ requests = 0
        /\ fetch = IdleFetch
        /\ store = IdleStore
        /\ last = [NoCall EXCEPT !.op = "New", !.args = a]

\* Name reads the two words of the name as they are in memory
NameCall ==
    /\ Running
    /\ fetch.pc = "idle"
    /\ last' = [NoCall EXCEPT !.op = "Name", !.ret = Name(provider),
                              !.raced = (store.pc # "idle")]
    /\ UNCHANGED <<provider, session, requests, fetch, store>>

\* SetName as a whole
SetName(p, name) == [p EXCEPT !.providerName = name]

\* a SetName step runs beside the FetchUser in progress
Raced(f) == IF f.pc = "idle" THEN f ELSE [f EXCEPT !.raced = TRUE]

\* SetName, first step: one word of the name is stored, the other still is the
\* old one
SetNameStore(name, word, behind) ==
    /\ Running
    /\ store.pc = "idle"
    /\ provider' = [provider EXCEPT
                       !.providerName = Torn(provider.providerName, name, word, behind)]
    /\ store' = [pc |-> "half", name |-> name]
    /\ fetch' = Raced(fetch)
    /\ last' = [NoCall EXCEPT !.op = "SetName.store", !.arg = name]
    /\ UNCHANGED <<session, requests>>

\* SetName, second step: the other word is stored and SetName returns
SetNameCall ==
    /\ Running
    /\ store.pc = "half"
    /\ provider' = SetName(provider, store.name)
    /\ store' = IdleStore
    /\ fetch' = Raced(fetch)
    /\ last' = [NoCall EXCEPT !.op = "SetName", !.arg = store.name]
    /\ UNCHANGED <<session, requests>>

\* BeginAuth; the caller keeps the session it returns
BeginAuthCall(state) ==
    /\ Running
    /\ fetch.pc = "idle"
    /\ session' = BeginAuthSession(provider, state)
    /\ last' = [NoCall EXCEPT !.op = "BeginAuth", !.arg = state, !.sess = session']
    /\ UNCHANGED <<provider, requests, fetch, store>>

\* the caller stores the access token and expiry of the code exchange
Authorize(token, expiresAt) ==
    /\ Running
    /\ fetch.pc = "idle"
    /\ session' = [session EXCEPT !.AccessToken = token, !.ExpiresAt = expiresAt]
    /\ last' = [NoCall EXCEPT !.op = "Authorize", !.arg = token, !.sess = session']
    /\ UNCHANGED <<provider, requests, fetch, store>>

\* FetchUser on the caller's session, first step: the user is built
FetchUserStart ==
    /\ Running
    /\ fetch.pc = "idle"
    /\ session.AccessToken # "" => requests < MaxRequests
    /\ fetch' = [pc |-> "built", sess |-> session,
                 user |-> startUser(provider, session), resp |-> NoResponse,
                 raced |-> (store.pc # "idle")]
    /\ last' = [NoCall EXCEPT !.op = "FetchUser.start", !.sess = session]
    /\ UNCHANGED <<provider, session, requests, store>>

\* second step: without a token FetchUser returns, with one it sends the GET
FetchUserCheck ==
    /\ Running
    /\ fetch.pc = "built"
    /\ IF missingToken(fetch.user)
       THEN /\ last' = [NoCall EXCEPT !.op = "FetchUser", !.sess = fetch.sess,
                                      !.out = incompleteSession(provider, fetch.user),
                                      !.built = fetch.user,
                                      !.raced = fetch.raced]
            /\ fetch' = IdleFetch
            /\ UNCHANGED requests
       ELSE /\ requests' = requests + 1
            /\ fetch' = [fetch EXCEPT !.pc = "waiting"]
            /\ last' = [NoCall EXCEPT !.op = "FetchUser.get", !.sess = fetch.sess]
    /\ UNCHANGED <<provider, session, store>>

\* third step: the transport answers the GET with resp; FetchUser returns on
\* a failure or a status other than 200, else it starts to read the body
FetchUserReply(resp) ==
    LET g == getProfile(provider, fetch.user, resp)
    IN  /\ Running
        /\ fetch.pc = "waiting"
        /\ IF g.done
           THEN /\ last' = [NoCall EXCEPT !.op = "FetchUser", !.sess = fetch.sess,
                                          !.resp = resp, !.out = g.out,
                                          !.built = fetch.user,
                                          !.raced = fetch.raced]
                /\ fetch' = IdleFetch
           ELSE /\ fetch' = [fetch EXCEPT !.pc = "reading", !.resp = resp]
                /\ last' = [NoCall EXCEPT !.op = "FetchUser.reply", !.sess = fetch.sess]
        /\ UNCHANGED <<provider, session, requests, store>>

\* last step: the body has been read (or reading it failed), it is decoded
\* and FetchUser returns
FetchUserRead ==
    /\ Running
    /\ fetch.pc = "reading"
    /\ last' = [NoCall EXCEPT !.op = "FetchUser", !.sess = fetch.sess,
                              !.resp = fetch.resp,
                              !.out = readProfile(fetch.resp, fetch.user),
                              !.built = fetch.user, !.raced = fetch.raced]
    /\ fetch' = IdleFetch
    /\ UNCHANGED <<provider, session, requests, store>>

RefreshTokenCall(refreshToken) ==
    LET r == RefreshToken(provider, refreshToken)
    IN  /\ Running
        /\ fetch.pc = "idle"
        /\ last' = [NoCall EXCEPT !.op = "RefreshToken", !.arg = refreshToken,
                                  !.ret = r.token, !.out = Return(ZeroUser, r.err, 0)]
        /\ UNCHANGED <<provider, session, requests, fetch, store>>

RefreshTokenAvailableCall ==
    /\ Running
    /\ fetch.pc = "idle"
    /\ last' = [NoCall EXCEPT !.op = "RefreshTokenAvailable",
                              !.avail = RefreshTokenAvailable(provider)]
    /\ UNCHANGED <<provider, session, requests, fetch, store>>

\* the life cycle of a provider
Init == InitWith(NewArgsNarrow)

Next ==
    \/ NameCall
    \/ \E name \in ProviderNames, word \in Words, behind \in Behind :
          SetNameStore(name, word, behind)
    \/ SetNameCall
    \/ \E state \in LoginStates : BeginAuthCall(state)
    \/ \E c \in Credentials : Authorize(c.token, c.expiresAt)
    \/ FetchUserStart
    \/ FetchUserCheck
    \/ \E resp \in Responses : FetchUserReply(resp)
    \/ FetchUserRead
    \/ \E refreshToken \in RefreshTokens : RefreshTokenCall(refreshToken)
    \/ RefreshTokenAvailableCall

Spec == Init /\ [][Next]_vars

\* construction over every argument list, then the start of a login
InitNew == InitWith(NewArgsWide)

NextNew ==
    \/ \E name \in ProviderNames, word \in Words, behind \in Behind :
          SetNameStore(name, word, behind)
    \/ SetNameCall
    \/ \E state \in States : BeginAuthCall(state)

SpecNew == InitNew /\ [][NextNew]_vars

----------------------------------------------------------------------------
(* What the claims speak of. *)

\* the last call was FetchUser on a session with an access token, and the
\* transport answered 200 with a body that could be read
FetchedOK ==
    /\ last.op = "FetchUser"
    /\ last.sess.AccessToken # ""
    /\ last.resp.kind = "response"
    /\ last.resp.status = StatusOK
    /\ ~last.resp.readFails

\* the body is JSON: one well-formed value and nothing after it
ValidJSON(body) == body.kind # "malformed" /\ ~body.trailing

\* the body is a JSON object whose "items" is an empty array or is absent
EmptyItems(body) ==
    /\ ValidJSON(body)
    /\ body.kind = "object"
    /\ \/ body.items.kind = "absent"
       \/ body.items.kind = "array" /\ Len(body.items.elems) = 0

\* the body is a JSON object whose "items" is an array with an element
HasItems(body) ==
    /\ ValidJSON(body)
    /\ body.kind = "object"
    /\ body.items.kind = "array"
    /\ Len(body.items.elems) >= 1

\* the text of a member: its string, the empty string when there is none
Text(fv) == IF fv.kind = "str" THEN fv.s ELSE ""

\* every member of the element has the JSON type of its field, or is absent
\* or null
WellTyped(e) ==
    /\ e.kind # "badtype"
    /\ e.f["user_id"].kind \in {"absent", "null", "num"}
    /\ \A k \in FieldNames \ {"user_id"} : e.f[k].kind \in {"absent", "null", "str"}

\* no profile field of the user is set
NoProfile(u) ==
    /\ u.Name = "" /\ u.FirstName = "" /\ u.LastName = "" /\ u.NickName = ""
    /\ u.Email = "" /\ u.Description = "" /\ u.AvatarURL = "" /\ u.UserID = ""
    /\ u.Location = ""

\* the fields FetchUser took from the session and from Name() when it built
\* the user
FromSession(u) ==
    /\ u.AccessToken = last.sess.AccessToken
    /\ u.ExpiresAt = last.sess.ExpiresAt
    /\ u.Provider = last.built.Provider

\* the string fields of the user are those of element e
CopiedFrom(u, e) ==
    /\ u.Name = Text(e.f["display_name"])
    /\ u.NickName = Text(e.f["display_name"])
    /\ u.FirstName = Text(e.f["first_name"])
    /\ u.LastName = Text(e.f["last_name"])
    /\ u.Email = Text(e.f["email"])
    /\ u.Description = Text(e.f["about_me"])
    /\ u.AvatarURL = Text(e.f["profile_image"])
    /\ u.Location = Text(e.f["location"])

\* the number of default scopes in a scope list
DefaultCount(scopes) == Cardinality({i \in DOMAIN scopes : scopes[i] = defaultScope})

NotDefault(scope) == scope # defaultScope

----------------------------------------------------------------------------
(* The claims. *)

\* C1: FetchUser with an access token, on a 200 response whose JSON body has
\* an empty or absent "items", returns an EmptyProfile error to the caller;
\* it neither succeeds nor aborts by indexing the first element.
C1_EmptyProfileError ==
    (FetchedOK /\ EmptyItems(last.resp.body))
        => /\ ~last.out.panicked
           /\ last.out.err.kind = "EmptyProfile"

\* C2: FetchUser on a session whose access token is empty fails with an
\* IncompleteSession error and issues no request; the message names the
\* provider (when no SetName runs beside the call, the stored name); a
\* FetchUser that succeeds was given a session with an access token.
C2_IncompleteSession ==
    [][/\ (last'.op = "FetchUser" /\ last'.sess.AccessToken = "")
            => /\ ~last'.out.panicked
               /\ last'.out.err.kind = "IncompleteSession"
               /\ ~last'.raced
                    => /\ store.pc = "idle"
                       /\ last'.out.err.msg
                            = provider.providerName
                                \o " cannot get user information without accessToken"
               /\ last'.out.gets = 0
               /\ requests' = requests
       /\ last'.op = "FetchUser.start" => requests' = requests
       /\ last'.op = "FetchUser.get" => last'.sess.AccessToken # ""
       /\ (last'.op = "FetchUser" /\ ~last'.out.panicked /\ last'.out.err = NoError)
            => last'.sess.AccessToken # ""]_vars

\* C2's case: FetchUser on the session BeginAuth returned, not yet authorized
C2_Witness ==
    /\ last.op = "FetchUser"
    /\ last.sess.AuthURL # ""
    /\ last.sess.AccessToken = ""
    /\ last.out.err.kind = "IncompleteSession"
    /\ requests = 0

\* C3: the scopes of the config New builds are the default scope followed by
\* the caller's scopes that are not the default, in order, duplicates kept;
\* the default scope occurs exactly once.
C3_Scopes ==
    /\ last.op = "New"
         => provider.config.Scopes
              = <<defaultScope>> \o SelectSeq(last.args.scopes, NotDefault)
    /\ DefaultCount(provider.config.Scopes) = 1

\* C3's case: the caller repeats the default scope and a scope of its own
C3_Witness ==
    /\ last.op = "New"
    /\ DefaultCount(last.args.scopes) >= 1
    /\ \E i, j \in DOMAIN last.args.scopes :
          i # j /\ last.args.scopes[i] = last.args.scopes[j]
    /\ Len(provider.config.Scopes) >= 1

\* C4: New(key, secret, third, ...) gives a provider whose ClientKey is the
\* first argument, Secret the second and CallbackURL the third.
C4_CallbackIsThird ==
    last.op = "New"
        => /\ provider.ClientKey = last.args.clientKey
           /\ provider.Secret = last.args.secret
           /\ provider.CallbackURL = last.args.clientAccessKey

\* C5: for a non-empty state, BeginAuth returns a session with an empty access
\* token whose AuthURL contains stackexchange.com/dialog/oauth, the client id,
\* the state and scope=private_info.
C5_AuthURL ==
    (last.op = "BeginAuth" /\ last.arg # "")
        => /\ Contains(last.sess.AuthURL, "stackexchange.com/dialog/oauth")
           /\ Contains(last.sess.AuthURL, "client_id=" \o provider.ClientKey)
           /\ Contains(last.sess.AuthURL, "state=" \o last.arg)
           /\ Contains(last.sess.AuthURL, "scope=private_info")
           /\ last.sess.AccessToken = ""

\* C6: every FetchUser that does not succeed returns an error and a partial
\* user with the session's access token and expiry and the provider's name;
\* none aborts the process.
C6_PartialUser ==
    (last.op = "FetchUser" /\ ~(~last.out.panicked /\ last.out.err = NoError))
        => /\ ~last.out.panicked
           /\ last.out.err # NoError
           /\ FromSession(last.out.user)

\* C7: with an access token FetchUser issues one GET; a transport
\* failure is a TransportError; otherwise a status other than 200 is an
\* UnexpectedStatus with the status and the provider name, whatever the body,
\* and neither raw data nor a profile field is set; otherwise a body that is
\* not valid JSON is a DecodeError.  (The abort on an empty "items" is C1's
\* and is not held against this statement.)
C7_InvalidBodyRejected ==
    (last.op = "FetchUser" /\ last.sess.AccessToken # "")
        => /\ last.out.gets = 1
           /\ last.resp.kind = "transportError"
                => /\ ~last.out.panicked
                   /\ last.out.err.kind = "TransportError"
           /\ (last.resp.kind = "response" /\ last.resp.status # StatusOK)
                => /\ ~last.out.panicked
                   /\ last.out.err.kind = "UnexpectedStatus"
                   /\ last.out.err.code = last.resp.status
                   /\ last.out.user.RawData = NilRawData
                   /\ NoProfile(last.out.user)
           /\ (FetchedOK /\ ~ValidJSON(last.resp.body) /\ ~last.out.panicked)
                => last.out.err.kind = "DecodeError"

\* C8 as stated: given a JSON body whose "items" starts with an object whose
\* members have their fields' types, the user is filled from that first
\* element alone, whatever the later elements; an absent member gives the
\* empty string, an absent user_id too.
C8_FirstItemOnly ==
    (/\ FetchedOK
     /\ HasItems(last.resp.body)
     /\ last.resp.body.items.elems[1].kind = "object"
     /\ WellTyped(last.resp.body.items.elems[1]))
        => LET e == last.resp.body.items.elems[1]
               u == last.out.user
           IN  /\ ~last.out.panicked
               /\ last.out.err = NoError
               /\ CopiedFrom(u, e)
               /\ u.UserID = (IF e.f["user_id"].kind = "num"
                              THEN Itoa(e.f["user_id"].n) ELSE "")
               /\ FromSession(u)

\* C8 as amended: given a JSON body with an element in "items": when every
\* member of every element has its field's type (or is absent or null), the
\* user is filled from the first element alone, an absent or null string
\* member gives the empty string and an absent or null user_id gives "0";
\* when some element, the first or a later one, has a member of another type,
\* the call fails with a DecodeError and no profile field is set.  The fields
\* taken from the session are unchanged either way.
C8_FirstItemDecoded ==
    (FetchedOK /\ HasItems(last.resp.body))
        => LET es == last.resp.body.items.elems
               e  == es[1]
               u  == last.out.user
           IN  /\ ~last.out.panicked
               /\ FromSession(u)
               /\ IF \A i \in 1..Len(es) : WellTyped(es[i])
                  THEN /\ last.out.err = NoError
                       /\ CopiedFrom(u, e)
                       /\ u.UserID = (IF e.f["user_id"].kind = "num"
                                      THEN Itoa(e.f["user_id"].n) ELSE "0")
                  ELSE /\ last.out.err.kind = "DecodeError"
                       /\ NoProfile(u)

\* C8's case: two well-typed elements, the first the spec's sample
C8_Witness ==
    /\ FetchedOK
    /\ last.resp.body.items.kind = "array"
    /\ Len(last.resp.body.items.elems) = 2
    /\ last.resp.body.items.elems[1] = Ada
    /\ last.resp.body.items.elems[2] = Bob
    /\ last.out.user.UserID = "42"
    /\ last.out.user.Name = "Ada"
    /\ last.out.user.NickName = "Ada"
    /\ last.out.user.Email = "a@b.com"
    /\ last.out.user.Location = "NY"

\* C9: the name starts as "stackexchange"; SetName stores its argument and
\* changes nothing else, also while only one of its words is stored; no other
\* call changes the provider; Name returns the stored name; a FetchUser that
\* follows the calls puts the stored name in the user and in its
\* IncompleteSession and UnexpectedStatus messages.  Name and FetchUser are
\* those beside which no SetName runs.
C9_Name ==
    /\ provider.providerName = defaultProviderName
    /\ [][/\ last'.op = "SetName"
               => /\ provider' = [provider EXCEPT !.providerName = last'.arg]
                  /\ last'.arg = store.name
                  /\ session' = session
                  /\ requests' = requests
          /\ last'.op = "SetName.store"
               => /\ [provider' EXCEPT !.providerName = provider.providerName]
                       = provider
                  /\ store.pc = "idle"
                  /\ session' = session
                  /\ requests' = requests
          /\ last'.op \notin {"SetName", "SetName.store"} => provider' = provider
          /\ store'.pc = "idle" => provider'.providerName \in ProviderNames
          /\ (last'.op = "Name" /\ ~last'.raced)
               => last'.ret = provider.providerName
          /\ (last'.op = "FetchUser" /\ ~last'.out.panicked /\ ~last'.raced)
               => /\ store.pc = "idle"
                  /\ last'.out.user.Provider = provider.providerName
                  /\ last'.out.err.kind \in {"IncompleteSession", "UnexpectedStatus"}
                       => Contains(last'.out.err.msg, provider.providerName)]_vars

\* C9's case: FetchUser after a rename answers with the new name
C9_Witness ==
    /\ last.op = "FetchUser"
    /\ provider.providerName = "se2"
    /\ last.out.err.kind = "UnexpectedStatus"
    /\ last.out.user.Provider = "se2"
    /\ ~last.raced
    /\ provider.config = newConfig(provider, <<>>)

\* C10: RefreshToken returns no token and an UnsupportedOperation error,
\* RefreshTokenAvailable returns false; neither changes the provider or the
\* session or issues a request.
C10_NoRefresh ==
    [][/\ last'.op = "RefreshToken"
            => /\ last'.ret = "nil"
               /\ last'.out.err.kind = "UnsupportedOperation"
               /\ UNCHANGED <<provider, session, requests, fetch, store>>
       /\ last'.op = "RefreshTokenAvailable"
            => /\ last'.avail = FALSE
               /\ UNCHANGED <<provider, session, requests, fetch, store>>]_vars

\* C10's case: RefreshTokenAvailable on a renamed provider with an authorized
\* session, after a request
C10_Witness ==
    /\ last.op = "RefreshTokenAvailable"
    /\ ~last.avail
    /\ provider.providerName = "se2"
    /\ session.AccessToken # ""
    /\ requests > 0

====
